---- MODULE Spec2Model ----
(***************************************************************************)
(* Model of imessage-bot/bot.py: the relay loop of main(), the source      *)
(* query get_new_messages(), the responder call get_ai_response() and the  *)
(* sink send_imessage(), with the module-level state processed_messages    *)
(* and conversations.                                                      *)
(*                                                                         *)
(* Time.  message.date and the query parameter five_min_ago are kept as    *)
(* logical timestamps: the n-th row written to the store has date n, and   *)
(* the variable five_min_ago holds the value time.time() - 978307200 - 300 *)
(* would have in that scale.  It only grows (TimePasses), and a row that   *)
(* arrives now is always newer than it.                                    *)
(*                                                                         *)
(* Environment.  The store is read only by get_new_messages(), so rows     *)
(* arriving and time passing are interleaved at the two places where a     *)
(* fetch is about to run (Init covers the startup fetch, pc = "poll" the   *)
(* fetch of every tick).  What the environment may still do is counted     *)
(* down in env.budget.  Init draws one of three scenarios: "storm" (few     *)
(* rows of every kind, failing calls, clock steps), "long" (one sender,    *)
(* one new row per tick, enough of them to outgrow the 20-turn window) and *)
(* "flood" (more rows in the window than LIMIT 20 returns).                *)
(*                                                                         *)
(* Text.  In the loop a body, a reply and a recipient are whole values.    *)
(* What send_imessage() does to their characters when it builds the        *)
(* osascript command is followed by a specification of its own, SendSpec.  *)
(***************************************************************************)
EXTENDS Integers, Sequences, FiniteSets

VARIABLES
    ANTHROPIC_API_KEY,   \* TRUE iff the environment variable is set (line 21)
    store,               \* rows of message JOIN handle in chat.db, in ROWID order
    five_min_ago,        \* the lower bound on message.date a fetch made now would use
    pc,                  \* position of main()
    existing,            \* main(): result of the startup fetch
    messages,            \* main(): result of the fetch of the current tick
    idx,                 \* main(): position of the for loop in messages
    processed_messages,  \* the ledger (line 24)
    conversations,       \* phone -> list of turns (line 25)
    history,             \* get_ai_response(): the window passed to the responder
    response,            \* main(): the text get_ai_response() returned
    calls,               \* log: every client.messages.create call
    sent,                \* log: every send_imessage call
    backlog,             \* log: the number of rows the store held at start
    env,                 \* what the environment may still do
    frame                \* send_imessage(): phone, message, escaped_message, script

vars == <<ANTHROPIC_API_KEY, store, five_min_ago, pc, existing, messages, idx,
          processed_messages, conversations, history, response, calls, sent,
          backlog, env, frame>>

----------------------------------------------------------------------------
(* Bounds of the exploration *)

MaxBacklog == 1      \* rows in the store at start, scenario "storm"
MaxEvents == 4       \* rows written (an odd one counts twice), failing calls and
                     \* clock steps, scenario "storm"
LongRun == 11        \* rows arriving after start, scenario "long"
FloodExtra == 1      \* rows in the store at start beyond the fetch limit, "flood"
FloodNew == 1        \* rows arriving after start, scenario "flood"
MaxMessage == 3      \* characters of a message body handed to send_imessage
MaxPhone == 2        \* characters of a recipient handed to send_imessage

(* Program constants *)

FetchLimit == 20     \* LIMIT 20 of the query
WindowSize == 20     \* conversations[phone][-20:]

NULL == "<NULL>"     \* SQL NULL in message.text; no body below equals it
FallbackText == "Sorry, I'm having trouble right now. Try again in a moment!"

Phones == {"+15550100", "+15550101"}
PlainPhone == "+15550100"

(* Text of the row with a given ROWID, and the text the responder returns
   for it: one distinct string per row. *)
BodyPool == <<"m01", "m02", "m03", "m04", "m05", "m06", "m07", "m08", "m09", "m10",
              "m11", "m12", "m13", "m14", "m15", "m16", "m17", "m18", "m19", "m20",
              "m21", "m22", "m23", "m24", "m25", "m26", "m27", "m28", "m29", "m30">>
ReplyPool == <<"r01", "r02", "r03", "r04", "r05", "r06", "r07", "r08", "r09", "r10",
               "r11", "r12", "r13", "r14", "r15", "r16", "r17", "r18", "r19", "r20",
               "r21", "r22", "r23", "r24", "r25", "r26", "r27", "r28", "r29", "r30">>

Max(a, b) == IF a >= b THEN a ELSE b

(* Text as send_imessage sees it: a sequence of characters.  The alphabet
   holds the three characters AppleScript's string syntax is sensitive to
   and one that it is not. *)
DQ == "\""           \* the double-quote
SQ == "'"            \* the apostrophe
BS == "\\"           \* the backslash
Alphabet == {DQ, SQ, BS, "a"}

\* no call of send_imessage is followed character by character
NoFrame == [phone |-> <<>>, message |-> <<>>, escaped_message |-> <<>>, script |-> <<>>]

----------------------------------------------------------------------------
(* Rows of the store *)

Row(rowid, text, is_from_me, phone) ==
    [ROWID |-> rowid, text |-> text, date |-> rowid,
     is_from_me |-> is_from_me, phone |-> phone]

Odd(row) == row.is_from_me = 1 \/ row.text \in {NULL, ""}

\* the rows that may be written as row number rowid
PlainRow(rowid) == Row(rowid, BodyPool[rowid], 0, PlainPhone)

NewRows(rowid) ==
    {Row(rowid, BodyPool[rowid], 0, phone) : phone \in Phones}
    \cup {Row(rowid, text, 0, PlainPhone) : text \in {NULL, ""}}
    \cup {Row(rowid, BodyPool[rowid], 1, PlainPhone)}

\* what a row costs the environment: an odd row counts twice
Cost(row) == IF Odd(row) THEN 2 ELSE 1

RECURSIVE StoreCost(_)
StoreCost(st) == IF st = <<>> THEN 0 ELSE Cost(st[Len(st)]) + StoreCost(SubSeq(st, 1, Len(st) - 1))

RECURSIVE StoresOfLen(_)
StoresOfLen(n) ==
    IF n = 0 THEN {<<>>}
    ELSE {Append(st, row) : st \in StoresOfLen(n - 1), row \in NewRows(n)}

PlainStore(n) == [i \in 1..n |-> PlainRow(i)]

----------------------------------------------------------------------------
(* get_new_messages, lines 59-89 *)

\* WHERE is_from_me = 0 AND text IS NOT NULL AND date > ?
Matching(st, since) ==
    {i \in 1..Len(st) :
        st[i].is_from_me = 0 /\ st[i].text # NULL /\ st[i].date > since}

\* ORDER BY date DESC LIMIT n: the k-th row returned is the one of S with
\* k - 1 rows of S newer than it (dates are distinct)
NewestFirst(st, S, n) ==
    [k \in 1..(IF Cardinality(S) < n THEN Cardinality(S) ELSE n) |->
        st[CHOOSE i \in S : Cardinality({j \in S : st[j].date > st[i].date}) = k - 1]]

get_new_messages(st, since) == NewestFirst(st, Matching(st, since), FetchLimit)

\* the ids of the rows a fetch returned (msg[0], rowid)
RowIds(rows) == {rows[i].ROWID : i \in 1..Len(rows)}

----------------------------------------------------------------------------
(* Conversation store, lines 95-103 and 115 *)

Turn(role, content) == [role |-> role, content |-> content]

\* xs[-n:]
LastN(xs, n) == SubSeq(xs, Max(1, Len(xs) - n + 1), Len(xs))

\* conversations[phone] after "if phone not in conversations: ... = []"
Conversation(convs, phone) ==
    IF phone \in DOMAIN convs THEN convs[phone] ELSE <<>>

\* the turn lands in every conversation, as with one list shared by all keys
AppendTurnShared(convs, phone, turn) ==
    [p \in (DOMAIN convs) \cup {phone} |-> Append(Conversation(convs, p), turn)]

\* the stored list is cut to the window after the append
AppendTurnTrimmed(convs, phone, turn) ==
    [p \in (DOMAIN convs) \cup {phone} |->
        IF p = phone THEN LastN(Append(Conversation(convs, phone), turn), WindowSize)
        ELSE convs[p]]

\* conversations after conversations[phone].append(turn)
AppendTurn(convs, phone, turn) ==
    [p \in (DOMAIN convs) \cup {phone} |->
        IF p = phone THEN Append(Conversation(convs, phone), turn) ELSE convs[p]]

\* [:20] in place of [-20:]
WindowOldest(convs, phone) ==
    SubSeq(Conversation(convs, phone), 1,
           IF Len(Conversation(convs, phone)) < WindowSize
           THEN Len(Conversation(convs, phone)) ELSE WindowSize)

\* the window is taken before the turn of line 100 is appended
WindowStale(convs, phone) ==
    LastN(SubSeq(Conversation(convs, phone), 1, Len(Conversation(convs, phone)) - 1), WindowSize)

\* line 103
Window(convs, phone) == LastN(Conversation(convs, phone), WindowSize)

----------------------------------------------------------------------------
(* Initial states *)

\* env: the scenario and the number of events the environment may still
\* cause: rows written, and in "storm" also failing calls and clock steps
Scenarios == {"storm", "long", "flood"}

Budget(name, st) ==
    CASE name = "storm" -> MaxEvents - StoreCost(st)
      [] name = "long" -> LongRun
      [] name = "flood" -> FloodNew

InitStores(name) ==
    CASE name = "storm" ->
            {st \in UNION {StoresOfLen(n) : n \in 0..MaxBacklog} : StoreCost(st) <= MaxEvents}
      [] name = "long" -> {<<>>}
      [] name = "flood" -> {PlainStore(FetchLimit + FloodExtra)}

Init ==
    /\ ANTHROPIC_API_KEY \in BOOLEAN
    /\ \E name \in Scenarios :
          /\ store \in InitStores(name)
          /\ env = [name |-> name, budget |-> Budget(name, store)]
    /\ backlog = Len(store)
    /\ five_min_ago \in (IF env.name = "storm" THEN 0..Len(store) ELSE {0})
    /\ pc = "startup"
    /\ existing = <<>>
    /\ messages = <<>>
    /\ idx = 0
    /\ processed_messages = {}
    /\ conversations = [p \in {} |-> <<>>]
    /\ history = <<>>
    /\ response = ""
    /\ calls = <<>>
    /\ sent = <<>>
    /\ frame = NoFrame

----------------------------------------------------------------------------
(* The environment: the store and the clock *)

\* every row a fetch made now would return is already in the ledger
NothingPending ==
    RowIds(get_new_messages(store, five_min_ago)) \subseteq processed_messages

\* the rows that may arrive next
Arrivals ==
    CASE env.name = "storm" ->
            {row \in NewRows(Len(store) + 1) : Cost(row) <= env.budget}
      [] env.name = "long" ->
            IF NothingPending /\ env.budget > 0 THEN {PlainRow(Len(store) + 1)} ELSE {}
      [] env.name = "flood" ->
            IF env.budget > 0 THEN {PlainRow(Len(store) + 1)} ELSE {}

Spend == env' = [env EXCEPT !.budget = @ - 1]

\* a fetch, a responder call or a send may fail
CanFail == env.name = "storm" /\ env.budget > 0

\* a row is written to chat.db
Arrive ==
    /\ pc = "poll"
    /\ \E row \in Arrivals :
          /\ store' = Append(store, row)
          /\ env' = [env EXCEPT !.budget = @ - Cost(row)]
    /\ UNCHANGED <<frame, backlog, ANTHROPIC_API_KEY, five_min_ago, pc, existing, messages, idx,
                   processed_messages, conversations, history, response, calls, sent>>

\* time passes: rows fall out of the five minute window, oldest first
TimePasses ==
    /\ pc = "poll"
    /\ CanFail
    /\ Spend
    /\ \E t \in (five_min_ago + 1)..Len(store) : five_min_ago' = t
    /\ UNCHANGED <<frame, backlog, ANTHROPIC_API_KEY, store, pc, existing, messages, idx,
                   processed_messages, conversations, history, response, calls, sent>>

----------------------------------------------------------------------------
(* main, lines 119-161 *)

\* lines 127-128 left out: the initial scan marks nothing
MarkExistingSkipped(ledger, rows) == ledger

\* the ledger after lines 127-128
MarkExisting(ledger, rows) == ledger \cup RowIds(rows)

\* lines 125-130: the initial scan; a sqlite3 error here is not caught
StartupScan ==
    /\ pc = "startup"
    /\ \/ /\ existing' = get_new_messages(store, five_min_ago)
          /\ processed_messages' = MarkExisting(processed_messages, existing')
          /\ pc' = "poll"
          /\ UNCHANGED env
       \/ /\ CanFail
          /\ Spend
          /\ pc' = "exited"
          /\ UNCHANGED <<existing, processed_messages>>
    /\ UNCHANGED <<frame, backlog, ANTHROPIC_API_KEY, store, five_min_ago, messages, idx,
                   conversations, history, response, calls, sent>>

\* line 134, and lines 158-159 when the fetch raises
PollFetch ==
    /\ pc = "poll"
    /\ \/ /\ messages' = get_new_messages(store, five_min_ago)
          /\ idx' = 1
          /\ pc' = "for"
          /\ UNCHANGED env
       \/ /\ CanFail
          /\ Spend
          /\ pc' = "sleep"
          /\ UNCHANGED <<messages, idx>>
    /\ UNCHANGED <<frame, backlog, ANTHROPIC_API_KEY, store, five_min_ago, existing,
                   processed_messages, conversations, history, response, calls, sent>>

\* lines 136-138: the next row is already in the ledger
ForSkip ==
    /\ pc = "for"
    /\ idx <= Len(messages)
    /\ messages[idx].ROWID \in processed_messages
    /\ idx' = idx + 1
    /\ UNCHANGED <<frame, backlog, ANTHROPIC_API_KEY, store, five_min_ago, pc, existing, messages, env,
                   processed_messages, conversations, history, response, calls, sent>>

\* line 140 left out: the ledger is not updated
MarkSeenForgotten(ledger, rowid) == ledger

\* the ledger after line 140
MarkSeen(ledger, rowid) == ledger \cup {rowid}

\* lines 136-142: the next row is new
ForTake ==
    /\ pc = "for"
    /\ idx <= Len(messages)
    /\ messages[idx].ROWID \notin processed_messages
    /\ processed_messages' = MarkSeen(processed_messages, messages[idx].ROWID)
    /\ pc' = "get_ai_response"
    /\ UNCHANGED <<frame, backlog, ANTHROPIC_API_KEY, store, five_min_ago, existing, messages, idx, env,
                   conversations, history, response, calls, sent>>

\* the for loop is exhausted: line 161 is next
ForDone ==
    /\ pc = "for"
    /\ idx > Len(messages)
    /\ pc' = "sleep"
    /\ UNCHANGED <<frame, backlog, ANTHROPIC_API_KEY, store, five_min_ago, existing, messages, idx, env,
                   processed_messages, conversations, history, response, calls, sent>>

\* line 161; messages, idx are dead until the next fetch assigns them
Sleep ==
    /\ pc = "sleep"
    /\ pc' = "poll"
    /\ messages' = <<>>
    /\ idx' = 0
    /\ UNCHANGED <<frame, backlog, ANTHROPIC_API_KEY, store, five_min_ago, existing, env,
                   processed_messages, conversations, history, response, calls, sent>>

----------------------------------------------------------------------------
(* get_ai_response, lines 91-117, called from line 146 *)

\* the handler of line 152 without line 154: the loop goes on to the next row
ExceptHandlerSkips == "for"

\* where an exception raised under line 145 continues: the handler of line 152
ExceptHandler == "fallback"

\* lines 93-103: the client, the user turn, the window.  Without the key
\* get_anthropic_client raises and line 152 catches it.
GetAiResponseBegin ==
    /\ pc = "get_ai_response"
    /\ LET phone == messages[idx].phone
           text == messages[idx].text
       IN  IF ~ANTHROPIC_API_KEY
           THEN /\ pc' = ExceptHandler
                /\ UNCHANGED <<conversations, history>>
           ELSE /\ conversations' = AppendTurn(conversations, phone, Turn("user", text))
                /\ history' = Window(conversations', phone)
                /\ pc' = "create"
    /\ UNCHANGED <<frame, backlog, ANTHROPIC_API_KEY, store, five_min_ago, existing, messages, idx, env,
                   processed_messages, response, calls, sent>>

Call(row, result) == [ROWID |-> row.ROWID, phone |-> row.phone, result |-> result]

\* line 115 left out: the reply is not recorded
AppendAssistantForgotten(convs, phone, text) == convs

\* conversations after line 115
AppendAssistant(convs, phone, text) == AppendTurn(convs, phone, Turn("assistant", text))

\* line 115 moved where an exception of line 105 does not skip it
AfterCreateAlways(convs, phone, result, text) == AppendAssistant(convs, phone, text)

\* conversations after lines 105-115: an exception of line 105 skips line 115
AfterCreate(convs, phone, result, text) ==
    IF result = "ok" THEN AppendAssistant(convs, phone, text) ELSE convs

\* lines 105-117: client.messages.create returns, or raises into line 152
MessagesCreate ==
    /\ pc = "create"
    /\ LET row == messages[idx]
       IN  \/ /\ response' = ReplyPool[row.ROWID]
              /\ conversations' = AfterCreate(conversations, row.phone, "ok", response')
              /\ calls' = Append(calls, Call(row, "ok"))
              /\ pc' = "send"
              /\ UNCHANGED env
           \/ /\ CanFail
              /\ Spend
              /\ conversations' =
                    AfterCreate(conversations, row.phone, "error", ReplyPool[row.ROWID])
              /\ calls' = Append(calls, Call(row, "error"))
              /\ pc' = ExceptHandler
              /\ UNCHANGED response
    /\ UNCHANGED <<frame, backlog, ANTHROPIC_API_KEY, store, five_min_ago, existing, messages, idx,
                   processed_messages, history, sent>>

----------------------------------------------------------------------------
(* send_imessage, lines 38-57, called from lines 150 and 154 *)

\* One call of send_imessage while row is being processed.  result is "sent"
\* (osascript exits 0, returns True), "failed" (CalledProcessError, returns
\* False) or "raised" (any other exception of lines 52-56 leaves the function).
Send(row, phone, message, result) ==
    [ROWID |-> row.ROWID, phone |-> phone, message |-> message, result |-> result]

SendResults == {"sent", "failed", "raised"}

\* line 150: the generated reply; an exception goes to line 152
SendReply ==
    /\ pc = "send"
    /\ \E result \in SendResults :
          /\ IF result = "sent" THEN UNCHANGED env ELSE CanFail /\ Spend
          /\ sent' = Append(sent, Send(messages[idx], messages[idx].phone, response, result))
          /\ IF result = "raised"
             THEN pc' = ExceptHandler /\ UNCHANGED idx
             ELSE pc' = "for" /\ idx' = idx + 1
    /\ UNCHANGED <<frame, backlog, ANTHROPIC_API_KEY, store, five_min_ago, existing, messages,
                   processed_messages, conversations, history, response, calls>>

\* line 154: the fallback; an exception goes to line 158 and ends the tick
SendFallback ==
    /\ pc = "fallback"
    /\ \E result \in SendResults :
          /\ IF result = "sent" THEN UNCHANGED env ELSE CanFail /\ Spend
          /\ sent' = Append(sent, Send(messages[idx], messages[idx].phone, FallbackText, result))
          /\ IF result = "raised"
             THEN pc' = "sleep" /\ UNCHANGED idx
             ELSE pc' = "for" /\ idx' = idx + 1
    /\ UNCHANGED <<frame, backlog, ANTHROPIC_API_KEY, store, five_min_ago, existing, messages,
                   processed_messages, conversations, history, response, calls>>

----------------------------------------------------------------------------

Next ==
    \/ Arrive
    \/ TimePasses
    \/ StartupScan
    \/ PollFetch
    \/ ForSkip
    \/ ForTake
    \/ ForDone
    \/ Sleep
    \/ GetAiResponseBegin
    \/ MessagesCreate
    \/ SendReply
    \/ SendFallback

Spec == Init /\ [][Next]_vars

\* the steps of the process itself
LoopStep ==
    \/ StartupScan
    \/ PollFetch
    \/ ForSkip
    \/ ForTake
    \/ ForDone
    \/ Sleep
    \/ GetAiResponseBegin
    \/ MessagesCreate
    \/ SendReply
    \/ SendFallback

\* The process keeps running: main() is one thread that never waits for
\* anything but its own blocking calls, each of which returns.  The calls
\* that may fail are counted down in env, so fetches eventually succeed.
FairSpec == Spec /\ WF_vars(LoopStep)

----------------------------------------------------------------------------
(* send_imessage, lines 38-49: the command text.  A second specification
   follows one call of send_imessage for every recipient and every body over
   Alphabet, up to the point where the script is handed to osascript. *)

RECURSIVE TextsUpTo(_)
TextsUpTo(n) ==
    IF n = 0 THEN {<<>>}
    ELSE TextsUpTo(n - 1) \cup {Append(t, c) : t \in {u \in TextsUpTo(n - 1) : Len(u) = n - 1}, c \in Alphabet}

\* str.replace(old, new) for a one-character old
RECURSIVE Replace(_, _, _)
Replace(text, old, new) ==
    IF text = <<>> THEN <<>>
    ELSE (IF Head(text) = old THEN new ELSE <<Head(text)>>) \o Replace(Tail(text), old, new)

\* line 41
Escape(message) == Replace(Replace(message, DQ, <<BS, DQ>>), SQ, <<SQ, DQ, SQ, DQ, SQ>>)

\* the fixed text of the f-string of lines 43-49, between the places it fills in
ScriptHead == "\n    tell application \"Messages\"\n        set targetService to 1st account whose service type = iMessage\n        set targetBuddy to participant "
ScriptMiddle == " of targetService\n        send "
ScriptTail == " to targetBuddy\n    end tell\n    "

\* lines 43-49: the pieces of the script in order (joined, they are the
\* string); each character of phone and of escaped_message is one piece
Script(phone, escaped_message) ==
    <<ScriptHead, DQ>> \o phone \o <<DQ, ScriptMiddle, DQ>> \o escaped_message \o <<DQ, ScriptTail>>

SendInit ==
    /\ ANTHROPIC_API_KEY = TRUE
    /\ store = <<>>
    /\ env = [name |-> "send", budget |-> 0]
    /\ backlog = 0
    /\ five_min_ago = 0
    /\ pc = "send_imessage"
    /\ existing = <<>>
    /\ messages = <<>>
    /\ idx = 0
    /\ processed_messages = {}
    /\ conversations = [p \in {} |-> <<>>]
    /\ history = <<>>
    /\ response = ""
    /\ calls = <<>>
    /\ sent = <<>>
    /\ \E phone \in TextsUpTo(MaxPhone), message \in TextsUpTo(MaxMessage) :
          frame = [NoFrame EXCEPT !.phone = phone, !.message = message]

\* line 41
EscapeMessage ==
    /\ pc = "send_imessage"
    /\ frame' = [frame EXCEPT !.escaped_message = Escape(frame.message)]
    /\ pc' = "script"
    /\ UNCHANGED <<backlog, ANTHROPIC_API_KEY, store, five_min_ago, existing, messages, idx, env,
                   processed_messages, conversations, history, response, calls, sent>>

\* lines 43-49; line 52 is next
BuildScript ==
    /\ pc = "script"
    /\ frame' = [frame EXCEPT !.script = Script(frame.phone, frame.escaped_message)]
    /\ pc' = "osascript"
    /\ UNCHANGED <<backlog, ANTHROPIC_API_KEY, store, five_min_ago, existing, messages, idx, env,
                   processed_messages, conversations, history, response, calls, sent>>

SendNext == EscapeMessage \/ BuildScript

SendSpec == SendInit /\ [][SendNext]_vars

----------------------------------------------------------------------------
(* Properties *)

CallsFor(rowid) == {i \in 1..Len(calls) : calls[i].ROWID = rowid}
SentFor(rowid) == {i \in 1..Len(sent) : sent[i].ROWID = rowid}
RepliesFor(rowid) == {i \in SentFor(rowid) : sent[i].message # FallbackText}
FallbacksFor(rowid) == {i \in SentFor(rowid) : sent[i].message = FallbackText}

\* the row the loop body is working on
InProgress(rowid) ==
    /\ pc \in {"get_ai_response", "create", "send", "fallback"}
    /\ messages[idx].ROWID = rowid

\* C1: however often the poll ticks fetch a message id again, the loop makes
\* at most one reply attempt for it: at most one responder call, followed by
\* at most one delivery of a generated reply and at most one of the fallback.
AtMostOneAttempt ==
    \A rowid \in 1..Len(store) :
        /\ Cardinality(CallsFor(rowid)) <= 1
        /\ Cardinality(RepliesFor(rowid)) <= 1
        /\ Cardinality(FallbacksFor(rowid)) <= 1

\* C1 witness: a tick has gone through a fetch that returned an id answered
\* in an earlier tick together with a newer id answered in this tick.
RefetchedAfterReply ==
    /\ pc = "for"
    /\ idx > Len(messages)
    /\ \E i, j \in 1..Len(calls) :
          /\ i < j
          /\ calls[i].ROWID < calls[j].ROWID
          /\ {calls[i].ROWID, calls[j].ROWID} \subseteq RowIds(messages)

\* an inbound message with a body
Inbound(row) == row.is_from_me = 0 /\ row.text \notin {NULL, ""}

\* the startup scan is over and the process is in its poll loop
\* (rows 1..backlog were in the store when the process started)
Started == pc \notin {"startup", "exited"}

\* C2 as claimed: once startup has finished every inbound message the store
\* held at start is in the ledger, and none of them is ever answered.
BacklogAllInLedger ==
    Started =>
        \A i \in 1..backlog :
            Inbound(store[i]) =>
                /\ store[i].ROWID \in processed_messages
                /\ CallsFor(store[i].ROWID) = {}
                /\ SentFor(store[i].ROWID) = {}

\* C2 amended: once startup has finished, every id the startup fetch returned
\* is in the ledger; every pre-existing row a fetch made now would return is
\* in the ledger; and no responder call and no delivery has been made for any
\* row the store held at start.
BacklogNeverAnswered ==
    Started =>
        /\ RowIds(existing) \subseteq processed_messages
        /\ \A rowid \in RowIds(get_new_messages(store, five_min_ago)) :
              rowid <= backlog => rowid \in processed_messages
        /\ \A i \in 1..backlog :
              CallsFor(store[i].ROWID) = {} /\ SentFor(store[i].ROWID) = {}

\* C2 witness: the startup fetch returned rows, a later tick fetched one of
\* them again next to a new row, and the new row was answered.
BacklogRefetched ==
    /\ existing # <<>>
    /\ pc = "for"
    /\ idx > Len(messages)
    /\ RowIds(existing) \cap RowIds(messages) # {}
    /\ \E i \in 1..Len(messages) :
          messages[i].ROWID > backlog /\ SentFor(messages[i].ROWID) # {}

OkCalls(phone) ==
    {j \in 1..Len(calls) : calls[j].phone = phone /\ calls[j].result = "ok"}
ErrorCalls(phone) ==
    {j \in 1..Len(calls) : calls[j].phone = phone /\ calls[j].result = "error"}
TurnsOf(conv, role) == {k \in 1..Len(conv) : conv[k].role = role}

\* C4: when the responder call for a message has failed and the message is
\* done, exactly one delivery has been made for it, with the fallback text
\* and to the sender of the message, and the sender's conversation holds no
\* assistant turn but those of the calls that succeeded.
FallbackOnResponderError ==
    \A j \in 1..Len(calls) :
        (calls[j].result = "error" /\ ~InProgress(calls[j].ROWID)) =>
            /\ Cardinality(SentFor(calls[j].ROWID)) = 1
            /\ \A i \in SentFor(calls[j].ROWID) :
                  /\ sent[i].message = FallbackText
                  /\ sent[i].phone = store[calls[j].ROWID].phone
            /\ Cardinality(TurnsOf(Conversation(conversations, calls[j].phone), "assistant"))
                  = Cardinality(OkCalls(calls[j].phone))

\* C4 witness: a failed responder call whose message is done, for a sender
\* who also has an answered message.
ResponderErrorHandled ==
    \E j \in 1..Len(calls) :
        /\ calls[j].result = "error"
        /\ ~InProgress(calls[j].ROWID)
        /\ OkCalls(calls[j].phone) # {}

\* C5 as claimed: without the credential the process never gets past startup
\* and never delivers anything.
NoKeyNoLoop ==
    ~ANTHROPIC_API_KEY => (pc \in {"startup", "exited"} /\ sent = <<>>)

\* C6 as claimed: no failed fetch, at startup or in a tick, ends the process.
FetchFailureNeverFatal == pc # "exited"

\* C7 as claimed: when a tick is over, every message its fetch returned has
\* been taken up in that tick (it is in the ledger), whatever failed on the way.
TickProcessesAllFetched ==
    pc = "sleep" => RowIds(messages) \subseteq processed_messages

\* C8: the history passed to the responder never has more than 20 turns, and
\* when the sender's conversation has more than 20 it is the last 20 of them,
\* in order.
HistoryIsLast20 ==
    /\ Len(history) <= 20
    /\ pc = "create" =>
          LET conv == Conversation(conversations, messages[idx].phone)
          IN  Len(conv) > 20 =>
                 /\ Len(history) = 20
                 /\ \A k \in 1..20 : history[k] = conv[Len(conv) - 20 + k]

\* C8 witness: the responder is about to be called for a sender whose
\* conversation has more than 20 turns.
LongConversationCall ==
    /\ pc = "create"
    /\ Len(Conversation(conversations, messages[idx].phone)) > 20

\* the texts that belong to a sender: the bodies of that sender's rows and
\* the replies made to them
TextsOf(phone) ==
    UNION {{store[r].text, ReplyPool[r]} : r \in {r \in 1..Len(store) : store[r].phone = phone}}

OnlyOwnTurns(conv, phone) == \A k \in 1..Len(conv) : conv[k].content \in TextsOf(phone)

\* C9, the state part: a conversation holds only its own sender's turns, the
\* history passed to the responder holds only turns of the sender of the
\* message, and every delivery is addressed to the sender of its message.
OwnTurnsOnly ==
    /\ \A p \in DOMAIN conversations : OnlyOwnTurns(conversations[p], p)
    /\ pc = "create" => OnlyOwnTurns(history, messages[idx].phone)
    /\ \A i \in 1..Len(sent) : sent[i].phone = store[sent[i].ROWID].phone

\* C9, the step part: a step of the loop body changes no conversation but
\* that of the sender of the message it works on.
OthersUntouched ==
    \A p \in Phones :
        Conversation(conversations', p) # Conversation(conversations, p) =>
            /\ InProgress(messages[idx].ROWID)
            /\ p = messages[idx].phone

\* C9: processing a message of one sender changes only that sender's
\* conversation, passes only that sender's turns to the responder and
\* addresses every delivery to that sender.
SenderIsolation == []OwnTurnsOnly /\ [][OthersUntouched]_vars

\* C9 witness: two senders have been answered, both conversations hold turns.
TwoSendersAnswered ==
    /\ \A p \in Phones : OkCalls(p) # {} /\ Len(Conversation(conversations, p)) >= 2
    /\ \A p \in Phones : \E i \in 1..Len(sent) : sent[i].phone = p

\* C10: while no responder call for a sender has failed, the sender's
\* conversation reads user, assistant, user, assistant, ...; it ends with an
\* assistant turn unless the responder call for its last user turn is pending.
StrictAlternation ==
    \A p \in DOMAIN conversations :
        ErrorCalls(p) = {} =>
            LET conv == conversations[p]
            IN  /\ \A k \in 1..Len(conv) :
                      conv[k].role = (IF k % 2 = 1 THEN "user" ELSE "assistant")
                /\ Len(conv) % 2 = 1 => (pc = "create" /\ messages[idx].phone = p)

\* C10 witness: a sender without a failed call has two answered messages.
TwoExchanges ==
    \E p \in DOMAIN conversations :
        /\ ErrorCalls(p) = {}
        /\ Len(conversations[p]) >= 4
        /\ pc = "for"

\* no store of the exploration holds more rows than this
MaxRows == FetchLimit + FloodExtra + FloodNew + MaxEvents + LongRun

\* C3 as claimed, for a process that holds the credential: every inbound
\* message that arrives after startup is eventually passed to the responder
\* and has a delivery attempted for it.
EveryArrivalAnswered ==
    \A r \in 1..MaxRows :
        (ANTHROPIC_API_KEY /\ Started /\ r > backlog /\ r <= Len(store) /\ Inbound(store[r]))
            ~> (CallsFor(r) # {} /\ SentFor(r) # {})

\* the loop body is at work on a row / is not
BodyRunning == pc \in {"get_ai_response", "create", "send", "fallback"}

\* every row the loop took up and is done with has had a delivery attempted,
\* after a responder call when the credential is set
TakenUpRowsAnswered ==
    \A r \in processed_messages \ RowIds(existing) :
        ~InProgress(r) => (SentFor(r) # {} /\ (ANTHROPIC_API_KEY => CallsFor(r) # {}))

\* C3 amended: every message the loop takes up (a poll tick's fetch returned
\* it and its id was not in the ledger when the loop reached it) eventually
\* has a reply or fallback delivery attempted for it, after a responder call
\* for it when the credential is set: the loop body always finishes, and a
\* row it has finished with has been answered in that way.
TakenUpIsAnswered == []TakenUpRowsAnswered /\ (BodyRunning ~> ~BodyRunning)

\* C3 witness: a message that arrived after startup has been passed to the
\* responder and a delivery for it has been attempted.
ArrivalAnswered ==
    \E r \in 1..Len(store) :
        /\ r > backlog
        /\ ~InProgress(r)
        /\ CallsFor(r) # {}
        /\ SentFor(r) # {}


----------------------------------------------------------------------------
(* The command text *)

\* AppleScript reads a string literal from the piece after its opening
\* double-quote: a double-quote ends it, a backslash takes the next piece with
\* it (\" and \\ stand for the second character; nothing else of Alphabet may
\* follow a backslash), any other piece stands for itself.  The result is the
\* text read and the place of the closing double-quote, or ok = FALSE when the
\* literal is malformed or the script ends inside it.
RECURSIVE ReadLiteral(_, _, _)
ReadLiteral(pieces, i, value) ==
    IF i > Len(pieces) THEN [ok |-> FALSE, value |-> value, end |-> i]
    ELSE IF pieces[i] = DQ THEN [ok |-> TRUE, value |-> value, end |-> i]
    ELSE IF pieces[i] = BS
         THEN IF i + 1 <= Len(pieces) /\ pieces[i + 1] \in {DQ, BS}
              THEN ReadLiteral(pieces, i + 2, Append(value, pieces[i + 1]))
              ELSE [ok |-> FALSE, value |-> value, end |-> i]
         ELSE ReadLiteral(pieces, i + 1, Append(value, pieces[i]))

\* where the two literals of the script open: the piece after the
\* double-quote that follows ScriptHead, and the one after ScriptMiddle
PhoneStart == Len(<<ScriptHead, DQ>>) + 1
MessageStart == PhoneStart + Len(frame.phone) + Len(<<DQ, ScriptMiddle, DQ>>)

\* C11 as claimed: in the script handed to osascript the literal opened for
\* the body closes at the double-quote the template put after it, and reads
\* back as exactly the body.
MessageLiteralIntact ==
    pc = "osascript" =>
        ReadLiteral(frame.script, MessageStart, <<>>)
            = [ok |-> TRUE, value |-> frame.message, end |-> Len(frame.script) - 1]

\* C12 as claimed: in the script handed to osascript the literal opened for
\* the recipient closes at the double-quote the template put after it, and
\* reads back as exactly the recipient.
PhoneLiteralIntact ==
    pc = "osascript" =>
        ReadLiteral(frame.script, PhoneStart, <<>>)
            = [ok |-> TRUE, value |-> frame.phone, end |-> PhoneStart + Len(frame.phone)]

----------------------------------------------------------------------------
(* The fetch filter and the ledger *)

EmptyText == {NULL, ""}

\* C13 as claimed: no fetch, at startup or in a tick, returns a row whose
\* text is absent or the empty string, and the responder is never called for
\* such a row.
EmptyTextNeverFetched ==
    /\ \A i \in 1..Len(existing) : existing[i].text \notin EmptyText
    /\ \A i \in 1..Len(messages) : messages[i].text \notin EmptyText
    /\ \A j \in 1..Len(calls) : store[calls[j].ROWID].text \notin EmptyText

\* the user turns a conversation holds are bodies of rows in the ledger
UserTurnsInLedger ==
    \A p \in DOMAIN conversations :
        \A k \in TurnsOf(conversations[p], "user") :
            \E rowid \in processed_messages :
                store[rowid].phone = p /\ store[rowid].text = conversations[p][k].content

\* whatever has been done for a row, its id is in the ledger
SideEffectsInLedger ==
    /\ \A rowid \in 1..Len(store) :
          (InProgress(rowid) \/ CallsFor(rowid) # {} \/ SentFor(rowid) # {})
              => rowid \in processed_messages
    /\ UserTurnsInLedger

\* a step never takes an id out of the ledger; the step that puts an id in
\* finds nothing done for it and does nothing else; and a row that is in the
\* ledger and not being worked on is not taken up by any step
LedgerStep ==
    \A rowid \in 1..Len(store) :
        /\ rowid \in processed_messages => rowid \in processed_messages'
        /\ (rowid \notin processed_messages /\ rowid \in processed_messages') =>
              /\ CallsFor(rowid) = {} /\ SentFor(rowid) = {}
              /\ UNCHANGED <<conversations, calls, sent>>
        /\ (rowid \in processed_messages /\ ~InProgress(rowid)) => ~InProgress(rowid)'

\* C14: an id is in the ledger before its user turn is appended, before the
\* responder is called and before any delivery for it; it stays there
\* whatever fails later, and a row whose processing is over, failed or not,
\* is never taken up again.
LedgerBeforeSideEffects == []SideEffectsInLedger /\ [][LedgerStep]_vars

\* C14 witness: a delivery for a row did not succeed, and a later tick, which
\* answered a newer row, fetched the row again and went past it.
FailedRowSkippedLater ==
    /\ pc = "for"
    /\ idx > Len(messages)
    /\ \E i, j \in 1..Len(sent) :
          /\ i < j
          /\ sent[i].result # "sent"
          /\ sent[i].ROWID < sent[j].ROWID
          /\ {sent[i].ROWID, sent[j].ROWID} \subseteq RowIds(messages)

----------------------------------------------------------------------------
(* Order within a tick, deliveries per message *)

\* C15 as claimed: a tick handles the new messages of a sender oldest first:
\* while the loop has appended the user turn of a row and is calling the
\* responder or delivering its reply, no older row of the same sender that
\* the same fetch returned is still waiting to be taken up.
InArrivalOrder ==
    pc \in {"create", "send"} =>
        \A i \in 1..Len(messages) :
            (messages[i].phone = messages[idx].phone /\ messages[i].ROWID < messages[idx].ROWID)
                => messages[i].ROWID \in processed_messages

\* C16 as claimed: the sink is invoked at most once for a message, and
\* exactly once for a message the loop took up and is done with, whether the
\* delivery succeeded or not.
OneDeliveryPerMessage ==
    \A rowid \in 1..Len(store) :
        /\ Cardinality(SentFor(rowid)) <= 1
        /\ (rowid \in processed_messages \ RowIds(existing) /\ ~InProgress(rowid))
              => Cardinality(SentFor(rowid)) = 1

----------------------------------------------------------------------------
(* The stored conversation and the history of a call *)

IsPrefix(xs, ys) == Len(xs) <= Len(ys) /\ SubSeq(ys, 1, Len(xs)) = xs

\* a step leaves every conversation as it was or appends to it
ConversationsGrow ==
    \A p \in Phones : IsPrefix(Conversation(conversations, p), Conversation(conversations', p))

\* C17: every sender's stored conversation is append-only: after any step
\* each conversation has its previous content as a prefix, the step that
\* takes the 20-turn window included.
AppendOnly == [][ConversationsGrow]_vars

\* C17 witness: the window has been taken from a conversation of more than
\* 20 turns, the reply has been appended, and all turns are still stored.
LongConversationKept ==
    /\ pc = "send"
    /\ Len(history) = WindowSize
    /\ Len(Conversation(conversations, messages[idx].phone)) > WindowSize + 1

\* C18: when the responder is about to be called for a message, the history
\* passed to it is not empty and its last turn is the user turn holding the
\* body of that message.
LastTurnIsMessage ==
    pc = "create" =>
        /\ history # <<>>
        /\ history[Len(history)] = Turn("user", messages[idx].text)

\* C18 witness: the responder is about to be called with a history of
\* several turns, for a sender with an earlier call that failed.
CallAfterFailedCall ==
    /\ pc = "create"
    /\ Len(history) >= 3
    /\ ErrorCalls(messages[idx].phone) # {}

\* C19 as claimed: when the responder is about to be called, the first turn
\* of the history is a user turn.
FirstTurnIsUser == pc = "create" => history[1].role = "user"

\* the conversation of the sender of a row holds the reply made to that row
HasAssistantTurn(rowid) ==
    LET conv == Conversation(conversations, store[rowid].phone)
    IN  \E k \in TurnsOf(conv, "assistant") : conv[k].content = ReplyPool[rowid]

\* the generated reply for a row was delivered
ReplyDelivered(rowid) == \E i \in RepliesFor(rowid) : sent[i].result = "sent"

\* C20 as claimed: once a message is done, its assistant turn is stored only
\* if the reply was delivered.
AssistantOnlyIfDelivered ==
    \A rowid \in 1..Len(store) :
        (~InProgress(rowid) /\ HasAssistantTurn(rowid)) => ReplyDelivered(rowid)

\* C20 amended: an assistant turn is stored for a message exactly when the
\* responder call for it succeeded; it is stored before the delivery and
\* kept whether the delivery succeeds or fails.
AssistantTurnIffResponderOk ==
    \A rowid \in 1..Len(store) :
        HasAssistantTurn(rowid) <=> (\E j \in CallsFor(rowid) : calls[j].result = "ok")

\* C20 witness: a message is done, the delivery of its reply did not
\* succeed, and the reply is in the sender's conversation.
UndeliveredReplyKept ==
    \E rowid \in 1..Len(store) :
        /\ ~InProgress(rowid)
        /\ RepliesFor(rowid) # {}
        /\ ~ReplyDelivered(rowid)
        /\ HasAssistantTurn(rowid)

====
